---- MODULE Spec2Model ----
(***************************************************************************)
(* Model of scgc, a conservative mark-and-sweep collector (src/src/lib.rs). *)
(*                                                                         *)
(* Units.  One address unit of the model is one pointer-sized word, so a   *)
(* Record (addr, size, status, repr(C)) occupies RecordSize = 3 units and  *)
(* a conservative scan of [begin, end) reads one candidate pointer per     *)
(* unit.  usize arithmetic is arithmetic modulo Mod.                       *)
(*                                                                         *)
(* The Record Table is kept as the function `records` (slot i of the code  *)
(* is records[i]); the space it takes at the top of the arena is accounted *)
(* for in malloc exactly as in the code.  Slot 0 is the memory at          *)
(* heap_end, which is not part of the table: find_record can return it,    *)
(* and the status scan_touch then reads and writes there lies outside the  *)
(* arena and changes no field of the model.                                *)
(*                                                                         *)
(* `mem` holds the words the caller can store to: its two root variables   *)
(* and the words of the arena.  The caller stores null or the address of a *)
(* block, into a root variable or into the first word of an in-use block.  *)
(***************************************************************************)
EXTENDS Integers, Sequences, FiniteSets, TLC

\* ---------------------------------------------------------------- bounds
Mod == 32            \* usize is Z/Mod
HeapBegin == 8       \* address returned by alloc::heap::allocate
HeapSize == 12       \* argument of Gc::new
StackLo == 24        \* lowest address of the caller's two root variables
MaxLinks == 2        \* at most this many block words hold a non-null value
HugeSize == Mod - 1  \* a request so large that size + record_size wraps

\* ------------------------------------------------------ program constants
RecordSize == 3      \* mem::size_of::<Record>() in words

StackHi == StackLo + 2
StackCells == StackLo .. (StackHi - 1)
StackAddrs == {StackLo, StackHi}
Sizes == {1, 2}      \* ordinary requests
WrapSizes == {HugeSize}
Addr == 0 .. (Mod - 1)
None == 0 - 1         \* Option::None

RecordStatus == {"Unknown", "Touched", "Referred", "Deallocated"}

VARIABLES
    heap_free,      \* Gc.heap_free
    record_count,   \* Gc.record_count
    records,        \* the Record Table, slot i = records[i]
    stack_begin,    \* Gc.stack_begin : Option
    stack_end,      \* Gc.stack_end : Option
    mem,            \* contents of the root variables and of the block words
    last,           \* what the last call did and returned
    halted,         \* the last call panicked or had undefined behaviour
    heap_size,      \* Gc.heap_size
    calls           \* malloc! calls made by the example's main

vars == <<heap_free, record_count, records, stack_begin, stack_end, mem, last, halted,
          heap_size, calls>>

\* Gc.heap_end
HeapEnd == HeapBegin + heap_size

Wrap(x) == x % Mod

\* -------------------------------------------------------------- helpers
Read(memory, a) == IF a \in DOMAIN memory THEN memory[a] ELSE 0

RangeOf(r) == {a \in Addr : r.addr <= a /\ a < r.addr + r.size}

InUse(r) == r.status # "Deallocated"

\* ------------------------------------------------------- Gc::find_record
RECURSIVE Search(_, _, _, _)
Search(recs, addr, start, end) ==
    IF end - start > 1
    THEN LET mid == (start + end) \div 2
             record == recs[mid]
         IN  IF addr >= record.addr
             THEN IF Wrap(record.addr + record.size) > addr
                  THEN mid
                  ELSE Search(recs, addr, mid, end)
             ELSE Search(recs, addr, start, mid)
    ELSE start

find_record(recs, rc, addr) ==
    IF ~(HeapBegin <= addr /\ addr <= HeapEnd)
    THEN None
    ELSE Search(recs, addr, 0, rc)

\* -------------------------------------------------------- Gc::scan_touch
\* variant: the two bounds are put in ascending order before the scan
ScanHits_ordered(recs, rc, memory, begin, end) ==
    {find_record(recs, rc, Read(memory, ptr)) :
        ptr \in (IF begin <= end THEN begin ELSE end) ..
                ((IF begin <= end THEN end ELSE begin) - 1)} \ {None}

\* lines 220-222: the Records found for the words of begin..end
ScanHits(recs, rc, memory, begin, end) ==
    {find_record(recs, rc, Read(memory, ptr)) : ptr \in begin .. (end - 1)} \ {None}

\* variant: the filter lets every Record that is not Deallocated through
scan_touch_any(recs, rc, memory, begin, end) ==
    LET hits == ScanHits(recs, rc, memory, begin, end)
    IN  [i \in DOMAIN recs |->
            IF i \in hits /\ recs[i].status # "Deallocated"
            THEN [recs[i] EXCEPT !.status = "Touched"]
            ELSE recs[i]]

scan_touch(recs, rc, memory, begin, end) ==
    LET hits == ScanHits(recs, rc, memory, begin, end)
    IN  [i \in DOMAIN recs |->
            IF i \in hits /\ recs[i].status = "Unknown"
            THEN [recs[i] EXCEPT !.status = "Touched"]
            ELSE recs[i]]

\* ------------------------------------------------------- Gc::free_record
free_record(record) == [record EXCEPT !.status = "Deallocated"]

\* ----------------------------------------------------- Gc::inner_cleanup
\* variant: the reset does not spare the Deallocated Records
InitStatus_all(recs) ==
    [i \in DOMAIN recs |-> [recs[i] EXCEPT !.status = "Unknown"]]

\* lines 90-96: every Record that is not Deallocated is reset to Unknown
InitStatus(recs) ==
    [i \in DOMAIN recs |->
        IF recs[i].status # "Deallocated"
        THEN [recs[i] EXCEPT !.status = "Unknown"]
        ELSE recs[i]]

\* one run of the for loop inside `while has_touched_record`, from slot i on
RECURSIVE MarkPass(_, _, _, _, _)
MarkPass(recs, rc, memory, i, touched) ==
    IF i > rc
    THEN [recs |-> recs, touched |-> touched]
    ELSE IF recs[i].status = "Touched"
         THEN LET referred == [recs EXCEPT ![i].status = "Referred"]
                  scanned == scan_touch(referred, rc, memory, recs[i].addr,
                                        Wrap(recs[i].addr + recs[i].size))
              IN  MarkPass(scanned, rc, memory, i + 1, TRUE)
         ELSE MarkPass(recs, rc, memory, i + 1, touched)

RECURSIVE MarkLoop(_, _, _)
MarkLoop(recs, rc, memory) ==
    LET pass == MarkPass(recs, rc, memory, 1, FALSE)
    IN  IF pass.touched THEN MarkLoop(pass.recs, rc, memory) ELSE pass.recs

\* variant: the sweep filters on Touched, so that nothing is ever freed
Sweep_touched(recs) ==
    [i \in DOMAIN recs |->
        IF recs[i].status = "Touched" THEN free_record(recs[i]) ELSE recs[i]]

\* lines 118-124: every Record still Unknown is freed
Sweep(recs) ==
    [i \in DOMAIN recs |->
        IF recs[i].status = "Unknown" THEN free_record(recs[i]) ELSE recs[i]]

\* the Record Table after inner_cleanup, when both root bounds are set
inner_cleanup(recs, rc, memory, sb, se) ==
    Sweep(MarkLoop(scan_touch(InitStatus(recs), rc, memory, sb, se), rc, memory))

\* variant: an unset bound is taken as an empty root range
CleanupCall_default(recs, rc, memory, sb, se) ==
    IF sb = None \/ se = None
    THEN [recs |-> Sweep(InitStatus(recs)), panic |-> FALSE]
    ELSE [recs |-> inner_cleanup(recs, rc, memory, sb, se), panic |-> FALSE]

\* inner_cleanup as a call: unwrap() of an unset bound panics after the
\* statuses have been reset
CleanupCall(recs, rc, memory, sb, se) ==
    IF sb = None \/ se = None
    THEN [recs |-> InitStatus(recs), panic |-> TRUE]
    ELSE [recs |-> inner_cleanup(recs, rc, memory, sb, se), panic |-> FALSE]

\* --------------------------------------------- Gc::malloc_from_deallocated
\* variant: the recorded size is not compared with the request
Fits_any(recs, rc, size) ==
    {i \in 1 .. rc : recs[i].status = "Deallocated"}

\* the slots that pass the filter of lines 173-176
Fits(recs, rc, size) ==
    {i \in 1 .. rc : recs[i].status = "Deallocated" /\ recs[i].size >= size}

FirstFit(recs, rc, size) ==
    CHOOSE i \in Fits(recs, rc, size) : \A j \in Fits(recs, rc, size) : i <= j

\* variant: the reused Record takes the size of the request
malloc_from_deallocated_shrink(recs, rc, size) ==
    IF Fits(recs, rc, size) # {}
    THEN LET i == FirstFit(recs, rc, size)
         IN  [recs |-> [recs EXCEPT ![i].status = "Referred", ![i].size = size],
              result |-> recs[i].addr, slot |-> i]
    ELSE [recs |-> recs, result |-> None, slot |-> 0]

\* lines 169-182: the first fitting Record is set to Referred and handed out
malloc_from_deallocated(recs, rc, size) ==
    IF Fits(recs, rc, size) # {}
    THEN LET i == FirstFit(recs, rc, size)
         IN  [recs |-> [recs EXCEPT ![i].status = "Referred"],
              result |-> recs[i].addr, slot |-> i]
    ELSE [recs |-> recs, result |-> None, slot |-> 0]

\* ------------------------------------------------------------ Gc::malloc
\* a pointer that `offset` may not produce: outside the allocation of Gc::new
OutOfArena(p) == p < HeapBegin \/ p > HeapEnd

BumpFits(free, rc, size) ==
    Wrap(size + RecordSize) <= Wrap(HeapEnd - free - RecordSize * rc)

\* `self.heap_free.offset(size as isize)`
Offset(free, size) == Wrap(free + size)

NewCount_dec(rc) == rc - 1

\* `self.record_count += 1`
NewCount(rc) == rc + 1

\* the table after the Record at slot `slot` has been filled in
WriteSlot(recs, slot, record) ==
    [i \in (DOMAIN recs) \cup {slot} |-> IF i = slot THEN record ELSE recs[i]]

\* malloc without the reuse attempt that precedes the collection
malloc_eager(free, rc, recs, memory, sb, se, size) ==
    IF BumpFits(free, rc, size)
    THEN [free |-> Offset(free, size), rc |-> NewCount(rc),
          recs |-> WriteSlot(recs, NewCount(rc),
                             [addr |-> free, size |-> size, status |-> "Referred"]),
          result |-> free, path |-> "bump", cleanups |-> 0, reuses |-> 0,
          panic |-> FALSE, ub |-> OutOfArena(Offset(free, size))]
    ELSE LET clean == CleanupCall(recs, rc, memory, sb, se)
             second == malloc_from_deallocated(clean.recs, rc, size)
         IN  IF clean.panic
             THEN [free |-> free, rc |-> rc, recs |-> clean.recs,
                   result |-> None, path |-> "panic",
                   cleanups |-> 1, reuses |-> 0, panic |-> TRUE, ub |-> FALSE]
             ELSE [free |-> free, rc |-> rc, recs |-> second.recs,
                   result |-> second.result,
                   path |-> IF second.result # None THEN "collect_reuse" ELSE "fail",
                   cleanups |-> 1, reuses |-> 1, panic |-> FALSE, ub |-> FALSE]

\* malloc that looks for a Deallocated Record before it bumps
malloc_reuse_first(free, rc, recs, memory, sb, se, size) ==
    LET first == malloc_from_deallocated(recs, rc, size)
    IN  IF first.result # None
        THEN [free |-> free, rc |-> rc, recs |-> first.recs,
              result |-> first.result, path |-> "reuse",
              cleanups |-> 0, reuses |-> 1, panic |-> FALSE, ub |-> FALSE]
        ELSE IF BumpFits(free, rc, size)
             THEN [free |-> Offset(free, size), rc |-> NewCount(rc),
                   recs |-> WriteSlot(recs, NewCount(rc),
                                      [addr |-> free, size |-> size, status |-> "Referred"]),
                   result |-> free, path |-> "bump", cleanups |-> 0, reuses |-> 1,
                   panic |-> FALSE, ub |-> OutOfArena(Offset(free, size))]
             ELSE LET clean == CleanupCall(recs, rc, memory, sb, se)
                      second == malloc_from_deallocated(clean.recs, rc, size)
                  IN  IF clean.panic
                      THEN [free |-> free, rc |-> rc, recs |-> clean.recs,
                            result |-> None, path |-> "panic",
                            cleanups |-> 1, reuses |-> 1, panic |-> TRUE, ub |-> FALSE]
                      ELSE [free |-> free, rc |-> rc, recs |-> second.recs,
                            result |-> second.result,
                            path |-> IF second.result # None THEN "collect_reuse" ELSE "fail",
                            cleanups |-> 1, reuses |-> 2, panic |-> FALSE, ub |-> FALSE]

\* the outcome of malloc(size): the new fields, the result, and the steps taken
malloc(free, rc, recs, memory, sb, se, size) ==
    IF BumpFits(free, rc, size)
    THEN [free |-> Offset(free, size), rc |-> NewCount(rc),
          recs |-> WriteSlot(recs, NewCount(rc),
                             [addr |-> free, size |-> size, status |-> "Referred"]),
          result |-> free, path |-> "bump", cleanups |-> 0, reuses |-> 0,
          panic |-> FALSE, ub |-> OutOfArena(Offset(free, size))]
    ELSE LET first == malloc_from_deallocated(recs, rc, size)
         IN  IF first.result # None
             THEN [free |-> free, rc |-> rc, recs |-> first.recs,
                   result |-> first.result, path |-> "reuse",
                   cleanups |-> 0, reuses |-> 1, panic |-> FALSE, ub |-> FALSE]
             ELSE LET clean == CleanupCall(recs, rc, memory, sb, se)
                      second == malloc_from_deallocated(clean.recs, rc, size)
                  IN  IF clean.panic
                      THEN [free |-> free, rc |-> rc, recs |-> clean.recs,
                            result |-> None, path |-> "panic",
                            cleanups |-> 1, reuses |-> 1, panic |-> TRUE, ub |-> FALSE]
                      ELSE [free |-> free, rc |-> rc, recs |-> second.recs,
                            result |-> second.result,
                            path |-> IF second.result # None THEN "collect_reuse" ELSE "fail",
                            cleanups |-> 1, reuses |-> 2, panic |-> FALSE, ub |-> FALSE]

\* ---------------------------------------------------------------- state
NoCall == [op |-> "none", size |-> 0, result |-> None, path |-> "none",
           cleanups |-> 0, reuses |-> 0]

\* Gc::new
Init ==
    /\ heap_size = HeapSize
    /\ calls = 0
    /\ heap_free = HeapBegin
    /\ record_count = 0
    /\ records = <<>>
    /\ stack_begin = None
    /\ stack_end = None
    /\ mem = [a \in StackCells \cup (HeapBegin .. (HeapEnd - 1)) |-> 0]
    /\ last = NoCall
    /\ halted = FALSE

\* Gc::stack_begin
StackBegin(a) ==
    /\ ~halted
    /\ stack_begin' = a
    /\ last' = NoCall
    /\ UNCHANGED <<heap_free, record_count, records, stack_end, mem, halted, heap_size, calls>>

\* Gc::stack_end
StackEnd(a) ==
    /\ ~halted
    /\ stack_end' = a
    /\ last' = NoCall
    /\ UNCHANGED <<heap_free, record_count, records, stack_begin, mem, halted, heap_size, calls>>

\* Gc::cleanup
Cleanup ==
    /\ ~halted
    /\ \E clean \in {CleanupCall(records, record_count, mem, stack_begin, stack_end)} :
           /\ records' = clean.recs
           /\ halted' = clean.panic
           /\ last' = [NoCall EXCEPT !.op = "cleanup", !.cleanups = 1,
                                     !.path = IF clean.panic THEN "panic" ELSE "none"]
    /\ UNCHANGED <<heap_free, record_count, stack_begin, stack_end, mem, heap_size, calls>>

\* Gc::malloc, release build: usize arithmetic wraps.  When the wrapped bump
\* test lets heap_free.offset leave the arena the call has undefined
\* behaviour: the fields are those the wrapping arithmetic produces and no
\* later call is modelled.
Malloc(size) ==
    /\ ~halted
    /\ \E m \in {malloc(heap_free, record_count, records, mem, stack_begin, stack_end, size)} :
           /\ heap_free' = m.free
           /\ record_count' = m.rc
           /\ records' = m.recs
           /\ halted' = (m.panic \/ m.ub)
           /\ last' = [op |-> "malloc", size |-> size, result |-> m.result,
                       path |-> m.path, cleanups |-> m.cleanups, reuses |-> m.reuses]
    /\ UNCHANGED <<stack_begin, stack_end, mem, heap_size, calls>>

\* Gc::malloc, debug build: `size + record_size` panics on overflow
MallocOverflowPanic(size) ==
    /\ ~halted
    /\ size + RecordSize >= Mod
    /\ halted' = TRUE
    /\ last' = [NoCall EXCEPT !.op = "malloc", !.size = size, !.path = "overflow"]
    /\ UNCHANGED <<heap_free, record_count, records, stack_begin, stack_end, mem, heap_size, calls>>

\* the caller's stores: a root variable, or the first word of a block it holds
PtrVals == {0} \cup {records[i].addr : i \in 1 .. record_count}

StoreRoot(a, v) ==
    /\ ~halted
    /\ mem[a] # v
    /\ mem' = [mem EXCEPT ![a] = v]
    /\ last' = NoCall
    /\ UNCHANGED <<heap_free, record_count, records, stack_begin, stack_end, halted, heap_size, calls>>

Links == {a \in HeapBegin .. (HeapEnd - 1) : mem[a] # 0}

StoreBlock(i, v) ==
    /\ ~halted
    /\ v # 0 => Cardinality(Links \ {records[i].addr}) < MaxLinks
    /\ InUse(records[i])
    /\ records[i].addr \in DOMAIN mem
    /\ mem[records[i].addr] # v
    /\ mem' = [mem EXCEPT ![records[i].addr] = v]
    /\ last' = NoCall
    /\ UNCHANGED <<heap_free, record_count, records, stack_begin, stack_end, halted, heap_size, calls>>

Next ==
    \/ \E a \in StackAddrs : StackBegin(a)
    \/ \E a \in StackAddrs : StackEnd(a)
    \/ Cleanup
    \/ \E size \in Sizes : Malloc(size)
    \/ \E a \in StackCells, v \in PtrVals : StoreRoot(a, v)
    \/ \E i \in 1 .. record_count, v \in PtrVals : StoreBlock(i, v)

\* a caller that requests ordinary sizes
Spec == Init /\ [][Next]_vars

\* a caller that, as the malloc! macro does, registers stack_end again and again
ChurnSpec == Spec /\ WF_vars(\E a \in StackAddrs : StackEnd(a))

\* a caller that also requests sizes for which size + record_size wraps
WrapNext ==
    \/ Next
    \/ \E size \in WrapSizes : Malloc(size)
    \/ \E size \in WrapSizes : MallocOverflowPanic(size)

WrapSpec == Init /\ [][WrapNext]_vars

\* ---------------------------------------------------- examples/example1.rs
\* main() of the example, scaled: an arena of ExampleHeap words, requests of
\* ExampleSize words (the macro always asks for the same size), the anchor
\* variable data1 and the cursor variable data2 in the two root cells.  The
\* u8 values the example writes into the blocks are not arena addresses, so
\* the block words stay 0.
ExampleHeap == 16
ExampleSize == 1
ExampleCalls == 100

Anchor == StackLo
Cursor == StackLo + 1

\* let mut gc = scgc::Gc::new(20480); data2 starts as a pointer to a stack array
ExampleInit ==
    /\ heap_size = ExampleHeap
    /\ calls = 0
    /\ heap_free = HeapBegin
    /\ record_count = 0
    /\ records = << >>
    /\ stack_begin = None
    /\ stack_end = None
    /\ mem = [a \in StackCells \cup (HeapBegin .. (HeapEnd - 1)) |-> 0]
    /\ last = NoCall
    /\ halted = FALSE

\* gc.stack_begin(&x)
ExampleStackBegin ==
    /\ stack_begin = None
    /\ StackBegin(Anchor)

\* malloc!(gc, 4096): $gc.stack_end(&foo), then $gc.malloc(4096).unwrap()
ExampleMalloc ==
    /\ ~halted
    /\ stack_begin # None
    /\ last.op # "malloc"
    /\ calls < ExampleCalls
    /\ \E m \in {malloc(heap_free, record_count, records, mem,
                         stack_begin, StackHi, ExampleSize)} :
        /\ stack_end' = StackHi
        /\ heap_free' = m.free
        /\ record_count' = m.rc
        /\ records' = m.recs
        /\ halted' = (m.panic \/ m.ub \/ m.result = None)
        /\ last' = [op |-> "malloc", size |-> ExampleSize, result |-> m.result,
                    path |-> m.path, cleanups |-> m.cleanups, reuses |-> m.reuses]
    /\ calls' = calls + 1
    /\ UNCHANGED <<stack_begin, mem, heap_size>>

\* let data1 = ...; for the first call, data2 = data; for the later ones
ExampleStore ==
    /\ ~halted
    /\ last.op = "malloc"
    /\ mem' = [mem EXCEPT ![IF calls = 1 THEN Anchor ELSE Cursor] = last.result]
    /\ last' = NoCall
    /\ UNCHANGED <<heap_free, record_count, records, stack_begin, stack_end, halted,
                   heap_size, calls>>

ExampleNext ==
    \/ ExampleStackBegin
    \/ ExampleMalloc
    \/ ExampleStore

ExampleSpec == ExampleInit /\ [][ExampleNext]_vars

\* ------------------------------------------- inner_cleanup, pass by pass
\* The collection of lines 86-125 in steps, with the statuses updated in place
\* in `records` as the code does: last.path = "mark" is the head of the while
\* loop with has_touched_record = true, last.path = "sweep" is the loop left.
Collecting == last.op = "cleanup" /\ last.path \in {"mark", "sweep"}

\* lines 90-100: the statuses are reset and the root range is scanned
CollectBegin ==
    /\ ~halted
    /\ ~Collecting
    /\ stack_begin # None
    /\ stack_end # None
    /\ records' = scan_touch(InitStatus(records), record_count, mem,
                             stack_begin, stack_end)
    /\ last' = [NoCall EXCEPT !.op = "cleanup", !.path = "mark"]
    /\ UNCHANGED <<heap_free, record_count, stack_begin, stack_end, mem, halted,
                   heap_size, calls>>

\* lines 103-113: one run of the body of `while has_touched_record`
CollectPass ==
    /\ last.op = "cleanup"
    /\ last.path = "mark"
    /\ \E pass \in {MarkPass(records, record_count, mem, 1, FALSE)} :
           /\ records' = pass.recs
           /\ last' = [last EXCEPT !.path = IF pass.touched THEN "mark" ELSE "sweep"]
    /\ UNCHANGED <<heap_free, record_count, stack_begin, stack_end, mem, halted,
                   heap_size, calls>>

\* lines 116-124
CollectSweep ==
    /\ last.op = "cleanup"
    /\ last.path = "sweep"
    /\ records' = Sweep(records)
    /\ last' = [NoCall EXCEPT !.op = "cleanup", !.cleanups = 1]
    /\ UNCHANGED <<heap_free, record_count, stack_begin, stack_end, mem, halted,
                   heap_size, calls>>

\* the caller between collections: root registration, stores, and requests
\* that the bump path serves
MarkNext ==
    \/ \E a \in StackAddrs : ~Collecting /\ StackBegin(a)
    \/ \E a \in StackAddrs : ~Collecting /\ StackEnd(a)
    \/ \E size \in Sizes :
           ~Collecting /\ BumpFits(heap_free, record_count, size) /\ Malloc(size)
    \/ \E a \in StackCells, v \in PtrVals : ~Collecting /\ StoreRoot(a, v)
    \/ \E i \in 1 .. record_count, v \in PtrVals : ~Collecting /\ StoreBlock(i, v)
    \/ CollectBegin
    \/ CollectPass
    \/ CollectSweep

\* no scheduler is involved: a collection that has begun runs on
MarkSpec ==
    /\ Init
    /\ [][MarkNext]_vars
    /\ WF_vars(CollectPass)
    /\ WF_vars(CollectSweep)

TypeOK ==
    /\ heap_free \in Addr
    /\ heap_size \in {HeapSize, ExampleHeap}
    /\ calls \in 0 .. ExampleCalls
    /\ DOMAIN records = 1 .. record_count
    /\ \A i \in 1 .. record_count : records[i].status \in RecordStatus

\* ------------------------------------------------- vocabulary of the claims
\* the registered root range [root_begin, root_end)
RootRange ==
    IF stack_begin = None \/ stack_end = None
    THEN {}
    ELSE {a \in Addr : stack_begin <= a /\ a < stack_end}

RootVals == {Read(mem, a) : a \in RootRange}

DataVals(r) == {Read(mem, a) : a \in RangeOf(r)}

PointsInto(v, r) == r.addr <= v /\ v < r.addr + r.size

InUseSlots == {i \in 1 .. record_count : InUse(records[i])}

\* in-use Records some value of the set points into
Targets(vals) == {i \in InUseSlots : \E v \in vals : PointsInto(v, records[i])}

RECURSIVE Closure(_)
Closure(S) ==
    LET T == S \cup UNION {Targets(DataVals(records[j])) : j \in S}
    IN  IF T = S THEN S ELSE Closure(T)

\* in-use Records with a chain of values from the root range
Reachable == Closure(Targets(RootVals))

\* the step is a collect() that returned: cleanup(), or the one inside malloc
Collected == last'.cleanups = 1 /\ ~halted'

\* ------------------------------------------------------------------ C1
\* C1: whenever collect() runs, every in-use Record with a chain of
\* pointer-sized values from the root range is Referred when it returns.
C1_Soundness ==
    [][Collected => \A i \in Reachable : records'[i].status = "Referred"]_vars

\* ------------------------------------------------------------------ C2
\* C2: allocate never returns the address of an in-use block that a value in
\* the root range points into when allocate is called.
C2_NoAliasing ==
    [][(last'.op = "malloc" /\ last'.result # None)
         => \A i \in Targets(RootVals) : last'.result # records[i].addr]_vars

\* ------------------------------------------------------------------ C3
\* C3: an in-use Record with no chain of values from the root range is
\* Deallocated when the next collect() returns (seen where the collect is not
\* followed by a successful reuse: cleanup(), or a failing allocate).
C3_Completeness ==
    [][(Collected /\ last'.result = None)
         => \A i \in InUseSlots \ Reachable : records'[i].status = "Deallocated"]_vars

\* ------------------------------------------------------------------ C4
\* C4: for every in-use Record r and every address a in [r.addr, r.addr +
\* r.size), find_record(a) returns exactly r.
C4_ResolveHits ==
    \A i \in InUseSlots : \A a \in RangeOf(records[i]) :
        find_record(records, record_count, a) = i

\* ------------------------------------------------------------------ C5
\* C5: find_record returns nothing for every address that lies in no
\* Record's range, inside or outside the arena bounds.
C5_ResolveMisses ==
    \A a \in Addr :
        (\A i \in 1 .. record_count : a \notin RangeOf(records[i]))
            => find_record(records, record_count, a) = None

\* ------------------------------------------------------------------ C6
\* the step is a malloc call that got past the size arithmetic
MallocStep == last'.op = "malloc" /\ last'.path # "overflow"

\* C6: one malloc call runs the collection at most once, and exactly when
\* neither the bump path nor the reuse path can serve the request; after the
\* collection it tries the reuse path once more and fails, with no further
\* collection, iff no Deallocated Record of sufficient size exists.
C6_OneCollect ==
    [][MallocStep =>
        /\ last'.cleanups \in {0, 1}
        /\ last'.cleanups = 1
              <=> /\ ~BumpFits(heap_free, record_count, last'.size)
                  /\ Fits(records, record_count, last'.size) = {}
        /\ (last'.cleanups = 1 /\ ~halted') => last'.reuses = 2
        /\ last'.cleanups = 0 => last'.reuses <= 1
        /\ (last'.result = None /\ ~halted')
              <=> /\ last'.cleanups = 1
                  /\ Fits(records', record_count', last'.size) = {}
                  /\ last'.path = "fail"]_vars

C6_Witness ==
    /\ last.op = "malloc" /\ last.path = "fail"
    /\ last.cleanups = 1 /\ last.reuses = 2 /\ last.result = None

\* ------------------------------------------------------------------ C7
\* C7: base <= free_cursor and free_cursor + record_count * record_size <=
\* end in every reachable state.
C7_Separation ==
    /\ HeapBegin <= heap_free
    /\ heap_free + record_count * RecordSize <= HeapEnd

\* ------------------------------------------------------------------ C8
\* C8: the ranges of two distinct in-use Records do not overlap, and every
\* such range lies inside [base, free_cursor).
C8_Disjoint ==
    /\ \A i, j \in InUseSlots :
          i # j => RangeOf(records[i]) \cap RangeOf(records[j]) = {}
    /\ \A i \in InUseSlots :
          RangeOf(records[i]) \subseteq {a \in Addr : HeapBegin <= a /\ a < heap_free}

\* ------------------------------------------------------------------ C9
\* C9: record_count never decreases in any step.
C9_MonotonicCount == [][record_count' >= record_count]_vars

\* a slot has been reclaimed and handed out again
C9_Witness ==
    /\ last.op = "malloc" /\ last.path \in {"reuse", "collect_reuse"}
    /\ record_count >= 2

\* ----------------------------------------------------------------- C10
\* C10 as claimed: a caller that keeps calling malloc eventually gets a
\* failure.
C10_EventuallyFails ==
    ([]<>(last.op = "malloc")) => <>(halted \/ (last.op = "malloc" /\ last.result = None))

\* C10 as amended: the Record Table grows by one slot on every bump-path
\* malloc, also while Deallocated Records are available; once the gap no
\* longer fits the request plus one slot the table stops growing and the
\* request is served from a Deallocated Record of sufficient size whenever
\* one exists.
C10_GrowthOnlyByBump ==
    [][(MallocStep /\ ~halted') =>
        IF BumpFits(heap_free, record_count, last'.size)
        THEN /\ record_count' = record_count + 1
             /\ last'.path = "bump"
        ELSE /\ record_count' = record_count
             /\ Fits(records, record_count, last'.size) # {}
                   => last'.result # None]_vars

\* the gap is used up and a request is served from a reclaimed Record
C10_Witness ==
    /\ last.op = "malloc" /\ last.path = "collect_reuse"
    /\ \A size \in Sizes : ~BumpFits(heap_free, record_count, size)

\* C11: in the example's scenario (an arena that fits exactly four blocks by
\* bump, the anchor and the cursor in the root range, one anchor allocation
\* and then 99 allocations stored into the cursor) every allocation returns
\* a block, and after the 100 calls fewer Records exist than calls were made:
\* every returned address is the addr of a Record, so some address was
\* returned by more than one allocation.
C11_ExampleSucceeds ==
    /\ ~halted
    /\ (last.op = "malloc" => last.result # None)
    /\ (last.op = "malloc" =>
            \E i \in 1 .. record_count : records[i].addr = last.result)
    /\ (calls = ExampleCalls => record_count < calls)

C11_Witness ==
    /\ calls = ExampleCalls
    /\ last.op = "malloc"
    /\ last.path \in {"reuse", "collect_reuse"}
    /\ record_count = ExampleHeap \div (ExampleSize + RecordSize)
    /\ HeapEnd - heap_free - RecordSize * record_count < ExampleSize + RecordSize

\* C12: a collection that runs while stack_begin or stack_end is unset,
\* called explicitly or from malloc's collect-and-retry path, ends in the
\* panic of Option::unwrap before the root scan: the call does not return,
\* the table keeps its length and no Record becomes Deallocated by it.
C12_UnsetRootPanics ==
    [][(last'.cleanups = 1 /\ (stack_begin = None \/ stack_end = None)) =>
          /\ halted'
          /\ last'.path = "panic"
          /\ last'.result = None
          /\ record_count' = record_count
          /\ heap_free' = heap_free
          /\ \A i \in 1 .. record_count :
                 records'[i].status = "Deallocated" => records[i].status = "Deallocated"]_vars

C12_Witness ==
    /\ halted
    /\ last.op = "malloc"
    /\ last.path = "panic"
    /\ stack_begin # None
    /\ stack_end = None
    /\ record_count > 1
    /\ \A i \in 1 .. record_count : records[i].status = "Unknown"

\* C13: heap_free and record_count change only in a malloc that takes the
\* bump path, where heap_free advances by exactly the requested size and
\* record_count by exactly 1; a malloc satisfied by reuse, a malloc that
\* returns None or panics, a cleanup, a root registration and the caller's
\* stores leave both unchanged.
C13_BumpOnlyMoves ==
    [][IF last'.op = "malloc" /\ last'.path = "bump"
       THEN /\ heap_free' = heap_free + last'.size
            /\ record_count' = record_count + 1
            /\ last'.result = heap_free
       ELSE /\ heap_free' = heap_free
            /\ record_count' = record_count]_vars

\* slot i is the first slot of recs, in slot order, that is Deallocated with
\* a recorded size of at least `size`
IsFirstFit(recs, size, i) ==
    /\ recs[i].status = "Deallocated"
    /\ recs[i].size >= size
    /\ \A j \in 1 .. (i - 1) : ~(recs[j].status = "Deallocated" /\ recs[j].size >= size)

\* C14: a malloc satisfied by reuse, before or after the collection, returns
\* the addr of the lowest slot that is Deallocated with recorded size >= the
\* request (so never a smaller one), sets that Record to Referred, and the
\* reuse step changes nothing else in the table.
C14_FirstFit ==
    [][(last'.op = "malloc" /\ last'.path \in {"reuse", "collect_reuse"}) =>
          LET before == IF last'.path = "reuse"
                        THEN records
                        ELSE inner_cleanup(records, record_count, mem,
                                           stack_begin, stack_end)
          IN  \E i \in 1 .. record_count :
                  /\ IsFirstFit(before, last'.size, i)
                  /\ last'.result = before[i].addr
                  /\ records' = [before EXCEPT ![i].status = "Referred"]]_vars

C14_Witness ==
    /\ last.op = "malloc"
    /\ last.path = "reuse"
    /\ last.size = 2
    /\ record_count = 2
    /\ records[1].status = "Deallocated"
    /\ records[1].size = 1
    /\ records[2].status = "Referred"
    /\ last.result = records[2].addr

\* C15: whatever the table, the root range and the block words hold, cycles
\* and self-references included, a collection that has begun leaves the mark
\* loop and finishes its sweep; every pass after which the loop continues
\* has promoted at least one Touched Record to Referred, and during the
\* collection a Referred Record stays Referred.
C15_MarkTerminates ==
    /\ (last.path = "mark") ~> (last.op = "cleanup" /\ last.path = "none")
    /\ [][(last.path = "mark" /\ last'.path = "mark") =>
             \E i \in 1 .. record_count :
                 records[i].status = "Touched" /\ records'[i].status = "Referred"]_vars
    /\ [][Collecting =>
             \A i \in 1 .. record_count :
                 records[i].status = "Referred" => records'[i].status = "Referred"]_vars

C15_Witness ==
    /\ last.op = "cleanup"
    /\ last.path = "none"
    /\ \E i, j \in 1 .. record_count :
           /\ i # j
           /\ mem[records[i].addr] = records[j].addr
           /\ mem[records[j].addr] = records[i].addr
           /\ records[i].status = "Referred"
           /\ records[j].status = "Referred"
    /\ \E k \in 1 .. record_count : records[k].status = "Deallocated"

\* C16: the addr and the size of an existing Record never change: not when
\* the slot is reused, also for a smaller request (no shrinking, splitting or
\* coalescing), and not in a collection, which changes status fields only
\* and leaves the length of the table alone.
C16_AddrSizeImmutable ==
    [][/\ \A i \in 1 .. record_count :
              /\ i \in DOMAIN records'
              /\ records'[i].addr = records[i].addr
              /\ records'[i].size = records[i].size
       /\ (last'.op = "cleanup" => DOMAIN records' = DOMAIN records)]_vars

C16_Witness ==
    /\ last.op = "malloc"
    /\ last.path \in {"reuse", "collect_reuse"}
    /\ \E i \in 1 .. record_count :
           /\ records[i].addr = last.result
           /\ records[i].status = "Referred"
           /\ records[i].size > last.size

\* C17: whenever no collection is in progress and the last call has returned
\* (after new, after a malloc, after a cleanup that returned normally) every
\* Record in slots 1..record_count is Referred or Deallocated, so Unknown and
\* Touched occur only inside a collection; and a Record that is Deallocated
\* when a collection starts is Deallocated in every step of it and after it.
C17_QuiescentStatuses ==
    /\ []((~halted /\ ~Collecting) =>
             \A i \in 1 .. record_count :
                 records[i].status \in {"Referred", "Deallocated"})
    /\ [][(last'.op = "cleanup" \/ last'.path = "fail") =>
             \A i \in 1 .. record_count :
                 records[i].status = "Deallocated" => records'[i].status = "Deallocated"]_vars

C17_Witness ==
    /\ ~halted
    /\ last.op = "cleanup"
    /\ last.path = "none"
    /\ last.cleanups = 1
    /\ \E i, j \in 1 .. record_count :
           /\ records[i].status = "Referred"
           /\ records[j].status = "Deallocated"
           /\ mem[StackLo] = records[j].addr

\* C18: in every reachable state the Records in slot order 1..record_count
\* have non-decreasing addr, strictly increasing when the sizes are positive,
\* and each block ends at or before the addr of the next slot.
C18_AddressSorted ==
    \A i \in 1 .. (record_count - 1) :
        /\ records[i].addr <= records[i + 1].addr
        /\ (records[i].size > 0 => records[i].addr < records[i + 1].addr)
        /\ records[i].addr + records[i].size <= records[i + 1].addr

\* C19: for every address and every reachable state, find_record returns
\* either nothing or one of the slots 1..record_count, never slot 0 (the
\* memory at heap_end), and it returns nothing when the table is empty.
C19_ResolverInTable ==
    \A a \in Addr :
        LET found == find_record(records, record_count, a)
        IN  /\ found \in {None} \cup (1 .. record_count)
            /\ (record_count = 0 => found = None)

\* C20: a collection that runs with both bounds set and stack_begin >=
\* stack_end scans no root word and marks nothing: when cleanup returns,
\* every Record is Deallocated whatever the root variables and the blocks
\* hold, and when malloc ran the collection every Record but the one it
\* then handed out is.
C20_EmptyRootRange ==
    [][(/\ last'.cleanups = 1
        /\ stack_begin # None
        /\ stack_end # None
        /\ stack_begin >= stack_end) =>
          /\ ~halted'
          /\ \A i \in 1 .. record_count :
                 \/ records'[i].status = "Deallocated"
                 \/ /\ last'.path = "collect_reuse"
                    /\ records'[i].addr = last'.result
                    /\ records'[i].status = "Referred"]_vars

C20_Witness ==
    /\ last.op = "cleanup"
    /\ last.cleanups = 1
    /\ ~halted
    /\ stack_begin > stack_end
    /\ stack_end # None
    /\ record_count >= 2
    /\ mem[StackLo] = records[1].addr
    /\ mem[records[1].addr] = records[2].addr
    /\ \A i \in 1 .. record_count : records[i].status = "Deallocated"
====
